---- MODULE Spec2Model ----
(***************************************************************************)
(* The Teller backend relay (src/backend/updated_teller_server.js, and its *)
(* earlier variant src/unnamed/part_000 without persistence and admin      *)
(* page) as a state machine.                                               *)
(*                                                                         *)
(* One Node.js process serves HTTP requests.  JavaScript runs each         *)
(* callback to completion, so an action of this model is the code between  *)
(* two suspension points of a handler: the arrival of a request up to its  *)
(* first `await`, and the completion of an awaited upstream call up to     *)
(* the next `await` or to the response.  The file system calls of the      *)
(* server are the synchronous ones (existsSync, readFileSync,              *)
(* writeFileSync): they never suspend the handler.                         *)
(***************************************************************************)
EXTENDS Integers, Sequences, FiniteSets, TLC

(***************************************************************************)
(* Bounds of the model.                                                    *)
(***************************************************************************)
\* Number of HTTP requests the process receives in one run.
NumReqs == 2
\* Longest accounts list the upstream API returns.
MaxAccounts == 2
\* Number of days that pass during a run.
MaxTicks == 1
\* Longest decoded Basic credential string.
MaxCredLen == 5
\* Longest list of transactions handed to the filter on its own.
MaxTxs == 3
\* Longest window, in months, the cutoff is computed for on its own.
MaxMonths == 13
\* Number of years, from 2023 on, whose days the cutoff is computed for.
NumYears == 2

(***************************************************************************)
(* State.                                                                  *)
(*   variant   which of the two programs runs                              *)
(*   clock     the time new Date() gave when it was last read              *)
(*   dataFile  DATA_FILE                                                   *)
(*   reqs      the request slots                                           *)
(*   trace     history: the requests' arrivals and responses, in order     *)
(*   file0     history: DATA_FILE when the process started                 *)
(*   filt      a call of filterRecentTransactions on its own: its          *)
(*             arguments, the cutoff it computed and what it returned      *)
(***************************************************************************)

VARIABLES variant, clock, dataFile, reqs, trace, file0, filt

(***************************************************************************)
(* Values.                                                                 *)
(***************************************************************************)
\* JavaScript's undefined, for a field an object does not have.
Undefined == "undefined"
\* The two programs of the repository.
Variants == {"updated", "basic"}
Reqs == 1..NumReqs

\* filterRecentTransactions(transactions, 3)
NumMonths == 3

(***************************************************************************)
(* Time.  A time value is a number of whole days since the first of        *)
(* January of EpochYear, the origin of the model's time; a calendar date   *)
(* is a year, a month 0..11 as getMonth counts it, and a day of the month. *)
(***************************************************************************)
EpochYear == 2020

IsLeap(y) == y % 4 = 0 /\ (y % 100 # 0 \/ y % 400 = 0)
DaysInYear(y) == IF IsLeap(y) THEN 366 ELSE 365
DaysInMonth(y, m) ==
    CASE m = 1 -> IF IsLeap(y) THEN 29 ELSE 28
      [] m \in {3, 5, 8, 10} -> 30
      [] OTHER -> 31

\* The days from the epoch to the first of January of year y.
RECURSIVE DaysBeforeYear(_)
DaysBeforeYear(y) ==
    IF y <= EpochYear THEN 0 ELSE DaysBeforeYear(y - 1) + DaysInYear(y - 1)

\* The days from the first of January of year y to the first of month m.
RECURSIVE DaysBeforeMonth(_, _)
DaysBeforeMonth(y, m) ==
    IF m = 0 THEN 0 ELSE DaysBeforeMonth(y, m - 1) + DaysInMonth(y, m - 1)

\* MakeDay(year, month, date) of ECMAScript: a month outside 0..11 carries
\* into the year, and a date beyond the end of the month runs on into the
\* months that follow.
MakeDay(y, m, d) ==
    LET ym == y + (m \div 12)
        mn == m % 12
    IN  DaysBeforeYear(ym) + DaysBeforeMonth(ym, mn) + d - 1

\* The year of time value t, and the days of that year before t.
RECURSIVE YearFromTime(_, _)
YearFromTime(t, y) ==
    IF t < DaysInYear(y) THEN [year |-> y, day |-> t]
    ELSE YearFromTime(t - DaysInYear(y), y + 1)

\* The month of the day-th day (from 0) of year y, and the day of the month.
RECURSIVE MonthFromTime(_, _, _)
MonthFromTime(day, y, m) ==
    IF day < DaysInMonth(y, m) THEN [month |-> m, date |-> day + 1]
    ELSE MonthFromTime(day - DaysInMonth(y, m), y, m + 1)

\* The calendar date of time value t.
DateFromTime(t) ==
    LET yd == YearFromTime(t, EpochYear)
        md == MonthFromTime(yd.day, yd.year, 0)
    IN  [year |-> yd.year, month |-> md.month, date |-> md.date]

getFullYear(t) == DateFromTime(t).year
getMonth(t) == DateFromTime(t).month
getDate(t) == DateFromTime(t).date

\* The run starts on the 31st of May 2023.
StartTime == MakeDay(2023, 4, 31)
\* new Date().toISOString()
ToISOString(t) == "T" \o ToString(t)

\* What new Date(x) is for a missing or unparseable x.
NaN == -1
\* tx.date values that are no date: a malformed string, and a missing field.
MalformedDate == -1
MissingDate == -2

\* Access tokens a client may send.
Tokens == {"tok1"}

(***************************************************************************)
(* The upstream API's data: accounts and their transactions.  An           *)
(* account's links.transactions is a relative path, an absolute URL, a     *)
(* string starting with "http" that is no URL, or absent (with or without  *)
(* a links object).                                                        *)
(***************************************************************************)
Account(id, hasLinks, form, inst) ==
    [id |-> id, hasLinks |-> hasLinks,
     transactions |-> [form |-> form, host |-> IF form = "absolute" THEN "cdn.teller.io" ELSE Undefined,
                       path |-> IF form = "absent" THEN Undefined ELSE "/accounts/" \o id \o "/transactions"],
     institution |-> inst]

UpstreamAccounts ==
    { Account("acc1", TRUE, "relative", "Bank"),
      Account("acc2", TRUE, "absolute", Undefined),
      Account("acc3", TRUE, "absent", "Bank"),
      Account("acc4", FALSE, "absent", Undefined),
      Account("acc5", TRUE, "malformed", "Bank") }

RECURSIVE SeqsUpTo(_, _)
SeqsUpTo(S, n) ==
    IF n = 0 THEN { <<>> }
    ELSE LET shorter == SeqsUpTo(S, n - 1)
         IN  shorter \cup { Append(s, x) : s \in { t \in shorter : Len(t) = n - 1 }, x \in S }

AccountLists == SeqsUpTo(UpstreamAccounts, MaxAccounts)

Tx(id, date) == [id |-> id, date |-> date]
\* The transactions the upstream holds: for the first account, for the others.
FirstTransactions ==
    << Tx("t1", MakeDay(2023, 2, 3)), Tx("t2", MalformedDate),
       Tx("t3", MakeDay(2023, 2, 1)), Tx("t4", MakeDay(2024, 0, 1)) >>
OtherTransactions ==
    << Tx("t5", MissingDate), Tx("t6", MakeDay(2023, 2, 2)),
       Tx("t7", MakeDay(2022, 0, 1)) >>
UpstreamTransactions(accountId) ==
    IF accountId = "acc1" THEN FirstTransactions ELSE OtherTransactions

(***************************************************************************)
(* callTeller(endpoint, accessToken).                                      *)
(***************************************************************************)
\* The endpoint of the accounts collection, a relative path.
AccountsEndpoint ==
    [form |-> "relative", host |-> Undefined, path |-> "/accounts"]

\* new URL(endpoint) throws for a string that starts with "http" and is no URL.
UrlThrows(endpoint) == endpoint.form = "malformed"

\* The options of the https request callTeller builds.
RequestOptions(endpoint, accessToken) ==
    [hostname |-> IF endpoint.form = "absolute" THEN endpoint.host ELSE "api.teller.io",
     path |-> endpoint.path,
     method |-> "GET",
     auth |-> accessToken \o ":"]

\* How an issued request ends: a transport error, a response with a non-2xx
\* status, a 2xx response whose body is no JSON, or a 2xx response with JSON.
CallFailures == {"transport", "status", "parse"}
\* err.message of the rejection.
FailureMessage(kind) ==
    CASE kind = "transport" -> "connect ECONNREFUSED"
      [] kind = "status" -> "Teller API request failed: 503 unavailable"
      [] kind = "parse" -> "Unexpected token < in JSON"
      [] kind = "url" -> "Invalid URL"
      [] kind = "notIterable" -> "accounts is not iterable"
      [] kind = "notArray" -> "transactions.filter is not a function"

(***************************************************************************)
(* filterRecentTransactions(transactions, numMonths)                       *)
(***************************************************************************)
\* date.setMonth(month): the date's year and day of the month with the new
\* month, through MakeDay.
setMonth(t, month) ==
    LET date == DateFromTime(t) IN MakeDay(date.year, month, date.date)

\* cutoff = new Date(); cutoff.setMonth(cutoff.getMonth() - numMonths)
Cutoff(now, numMonths) == setMonth(now, getMonth(now) - numMonths)

\* new Date(tx.date)
ParseDate(d) == IF d < 0 THEN NaN ELSE d

\* DateGE without the equality: a date on the cutoff is not taken.
DateGT(a, b) == a # NaN /\ b # NaN /\ a > b

\* txDate >= cutoff: a comparison with NaN is false.
DateGE(a, b) == a # NaN /\ b # NaN /\ a >= b

\* filterRecentTransactions leaving out the first transaction it would keep.
filterRecentButFirst(transactions, numMonths, now) ==
    LET cutoff == Cutoff(now, numMonths)
        kept == SelectSeq(transactions, LAMBDA tx : DateGE(ParseDate(tx.date), cutoff))
    IN  IF kept = <<>> THEN kept ELSE Tail(kept)

filterRecentTransactions(transactions, numMonths, now) ==
    LET cutoff == Cutoff(now, numMonths)
    IN  SelectSeq(transactions, LAMBDA tx : DateGE(ParseDate(tx.date), cutoff))

(***************************************************************************)
(* The data file.                                                          *)
(***************************************************************************)
MissingFile == [exists |-> FALSE, parses |-> FALSE, entries |-> <<>>]
\* A file whose text is no JSON (a zero-byte file is one).
CorruptFile == [exists |-> TRUE, parses |-> FALSE, entries |-> <<>>]
ArrayFile(entries) == [exists |-> TRUE, parses |-> TRUE, entries |-> entries]

\* A record an earlier run of the server left in the file.
OldRecord ==
    [accessToken |-> "tok0", timestamp |-> ToISOString(0), accounts |-> <<>>]

InitialFiles == { MissingFile, CorruptFile, ArrayFile(<<>>), ArrayFile(<<OldRecord>>) }

\* How fs.writeFileSync ends: the file written; an error before the file is
\* touched (EACCES, ENOENT of the directory); an error after the file was
\* truncated (ENOSPC), which leaves text that is no JSON.
WriteOutcomes == {"ok", "failUntouched", "failTruncated"}

\* ReadStore serving the contents the file had when the process started.
ReadStoreStale(file) == [threw |-> FALSE, store |-> file0.entries]

\* store = []; if (fs.existsSync(DATA_FILE)) store = JSON.parse(fs.readFileSync(...))
\* JSON.parse throws a SyntaxError on text that is no JSON.
ReadStore(file) ==
    IF ~file.exists THEN [threw |-> FALSE, store |-> <<>>]
    ELSE IF file.parses THEN [threw |-> FALSE, store |-> file.entries]
    ELSE [threw |-> TRUE, store |-> <<>>]

\* Push putting the record first.
PushFront(store, record) == << record >> \o store

\* store.push(record)
Push(store, record) == Append(store, record)

\* fs.writeFileSync(DATA_FILE, JSON.stringify(store, null, 2))
WriteFile(file, store, wr) ==
    CASE wr = "ok" -> ArrayFile(store)
      [] wr = "failUntouched" -> file
      [] wr = "failTruncated" -> CorruptFile

\* The error console.error reports for a write outcome.
WriteError(wr) ==
    CASE wr = "ok" -> "none"
      [] wr = "failUntouched" -> "EACCES"
      [] wr = "failTruncated" -> "ENOSPC"

\* NewRecord with the results left out.
NewRecordNoAccounts(accessToken, now, results) ==
    [accessToken |-> accessToken, timestamp |-> ToISOString(now), accounts |-> <<>>]

\* { accessToken, timestamp: new Date().toISOString(), accounts: results }
NewRecord(accessToken, now, results) ==
    [accessToken |-> accessToken, timestamp |-> ToISOString(now), accounts |-> results]

\* No record: the handler built none.
NoRecord == [accessToken |-> Undefined, timestamp |-> Undefined, accounts |-> <<>>]

\* The try block of the persist step, and what its catch reports:
\* the file afterwards, the record pushed, the error logged ("none": no error).
Persist(file, accessToken, now, results, wr) ==
    LET rd == ReadStore(file)
        rec == NewRecord(accessToken, now, results)
    IN  IF rd.threw
        THEN [file |-> file, record |-> NoRecord, storageErr |-> "SyntaxError"]
        ELSE [file |-> WriteFile(file, Push(rd.store, rec), wr),
              record |-> rec, storageErr |-> WriteError(wr)]

(***************************************************************************)
(* Responses.                                                              *)
(***************************************************************************)
\* The headers the server sets on every response before it dispatches.
CorsHeaders ==
    { <<"Access-Control-Allow-Origin", "*">>,
      <<"Access-Control-Allow-Methods", "POST, OPTIONS">>,
      <<"Access-Control-Allow-Headers", "Content-Type">> }

\* Reply without the headers set before the dispatch.
ReplyBare(status, headers, body) ==
    [status |-> status, headers |-> headers, body |-> body]

Reply(status, headers, body) ==
    [status |-> status, headers |-> CorsHeaders \cup headers, body |-> body]

NoReply == [status |-> 0, headers |-> {}, body |-> [type |-> "none"]]

JsonType == { <<"Content-Type", "application/json">> }
\* JSON.stringify({ error: err.message })
ErrorBody(message) == [type |-> "error", error |-> message]
\* JSON.stringify(results)
ResultsBody(results) == [type |-> "array", items |-> results]

(***************************************************************************)
(* A request slot: the state of one request's handler.                     *)
(*   pc      new, awaitAccounts, awaitTx (suspended in an await), done     *)
(*   accounts, idx, results   the handler's locals: the accounts list the  *)
(*           upstream returned, the loop's position in it, the results so  *)
(*           far (after a 200 response accounts and results stay, for the  *)
(*           response to be compared with them)                            *)
(*   calls   the upstream requests issued so far, in order                 *)
(*   record, storageErr   what the persist step pushed and logged          *)
(*   header  the Authorization header of a GET /admin request              *)
(***************************************************************************)
\* A request without an Authorization header.
NoHeader == [kind |-> "absent", decoded |-> <<>>]
NewSlot ==
    [pc |-> "new", route |-> "none", token |-> Undefined, accounts |-> <<>>,
     idx |-> 0, results |-> <<>>, calls |-> <<>>, reply |-> NoReply,
     record |-> NoRecord, storageErr |-> "none", header |-> NoHeader]

(***************************************************************************)
(* The POST /api/teller/sync handler.                                      *)
(***************************************************************************)
\* Truthy taking the empty string for a value.
TruthyEmpty(v) == v # Undefined

\* JavaScript truthiness of a string or undefined.
Truthy(v) == v # Undefined /\ v # ""

\* a || b
Or(a, b) == IF Truthy(a) THEN a ELSE b

TokenValues == {Undefined, ""} \cup Tokens
\* Request bodies: text that is no JSON, the JSON null, and a JSON object
\* (the empty body is parsed as '{}').
Bodies ==
    { [kind |-> "invalid", access_token |-> Undefined, accessToken |-> Undefined],
      [kind |-> "null", access_token |-> Undefined, accessToken |-> Undefined] }
    \cup [kind : {"object"}, access_token : TokenValues, accessToken : TokenValues]

\* payload.access_token || payload.accessToken (the basic variant reads
\* payload.access_token alone).
TokenOf(v, payload) ==
    IF v = "updated" THEN Or(payload.access_token, payload.accessToken)
    ELSE payload.access_token

\* CatchError issuing the failed call once more instead of answering.
CatchErrorRetry(rq, message) ==
    IF rq.calls = <<>>
    THEN [rq EXCEPT !.pc = "done", !.reply = Reply(500, JsonType, ErrorBody(message))]
    ELSE [rq EXCEPT !.calls = Append(@, rq.calls[Len(rq.calls)])]

\* CatchError answering with the results gathered before the failure.
CatchErrorPartial(rq, message) ==
    [rq EXCEPT !.pc = "done", !.reply = Reply(200, JsonType, ResultsBody(rq.results))]

\* catch (err): 500 and { error: err.message }.  The throw drops the
\* handler's locals (accounts, the loop index, results).
CatchError(rq, message) ==
    [rq EXCEPT !.pc = "done", !.accounts = <<>>, !.idx = 0, !.results = <<>>,
               !.reply = Reply(500, JsonType, ErrorBody(message))]

\* account.links && account.links.transactions
HasTransactionsLink(account) ==
    account.hasLinks /\ account.transactions.form # "absent"

\* NextLinked without the test of the link: the loop takes every account.
NextLinkedNoSkip(accounts, i) == i

\* The loop skips the accounts without a transactions link: the index of the
\* first account from i on that has one, Len(accounts) + 1 when there is none.
RECURSIVE NextLinked(_, _)
NextLinked(accounts, i) ==
    IF i > Len(accounts) THEN i
    ELSE IF HasTransactionsLink(accounts[i]) THEN i
    ELSE NextLinked(accounts, i + 1)

\* results.push({ accountId, institution, transactions: recent })
AccountResult(account, recent) ==
    [accountId |-> account.id, institution |-> account.institution, transactions |-> recent]

\* StatusAfterPersist letting a storage error fail the request.
StatusPropagated(storageErr) == IF storageErr = "none" THEN 200 ELSE 500

\* The status of the response after the persist step: its errors are caught
\* and logged, the response is 200 either way.
StatusAfterPersist(storageErr) == 200

\* The end of the handler once the loop is over: the persist step (the updated
\* variant only) and the 200 response with the results.
Finish(rq, file, now, wr, v) ==
    IF v = "basic"
    THEN [rq |-> [rq EXCEPT !.pc = "done",
                            !.reply = Reply(200, JsonType, ResultsBody(rq.results))],
          file |-> file]
    ELSE LET p == Persist(file, rq.token, now, rq.results, wr)
         IN  [rq |-> [rq EXCEPT !.pc = "done", !.record = p.record,
                                !.storageErr = p.storageErr,
                                !.reply = Reply(StatusAfterPersist(p.storageErr), JsonType,
                                                ResultsBody(rq.results))],
              file |-> p.file]

\* Resume issuing at once the calls of all the accounts from the next linked
\* one on, without awaiting each.
ResumeBurst(rq, i, file, now, wr, v) ==
    LET j == NextLinked(rq.accounts, i)
    IN  IF j > Len(rq.accounts) THEN Finish(rq, file, now, wr, v)
        ELSE [rq |-> [rq EXCEPT !.pc = "awaitTx", !.idx = j,
                                !.calls = @ \o [k \in 1..(Len(rq.accounts) - j + 1) |->
                                                  RequestOptions(rq.accounts[j + k - 1].transactions, rq.token)]],
              file |-> file]

\* The handler from loop index i up to its next suspension or to its response:
\* the slot and the file afterwards.
Resume(rq, i, file, now, wr, v) ==
    LET j == NextLinked(rq.accounts, i)
    IN  IF j > Len(rq.accounts) THEN Finish(rq, file, now, wr, v)
        ELSE IF UrlThrows(rq.accounts[j].transactions)
        THEN [rq |-> CatchError(rq, FailureMessage("url")), file |-> file]
        ELSE [rq |-> [rq EXCEPT !.pc = "awaitTx", !.idx = j,
                                !.calls = Append(@, RequestOptions(rq.accounts[j].transactions, rq.token))],
              file |-> file]

\* req.on('end'): parse the body, take the token, issue the accounts call.
StartSync(rq, body, v) ==
    LET started == [rq EXCEPT !.route = "sync"]
        token == TokenOf(v, body)
    IN  IF body.kind = "invalid" THEN CatchError(started, "Unexpected token in JSON")
        ELSE IF body.kind = "null"
        THEN CatchError(started, "Cannot read properties of null (reading 'access_token')")
        ELSE IF ~Truthy(token) THEN CatchError(started, "Missing access_token")
        ELSE [started EXCEPT !.pc = "awaitAccounts", !.token = token,
                             !.calls = << RequestOptions(AccountsEndpoint, token) >>]

(***************************************************************************)
(* The GET /admin handler.                                                 *)
(***************************************************************************)
\* Strings of the credentials are sequences of characters.
Chars == {"a", "p", ":"}
\* process.env.ADMIN_USER, process.env.ADMIN_PASS
ADMIN_USER == << "a" >>
ADMIN_PASS == << "p" >>
\* A variable destructured from an array too short to hold it.
UndefinedString == << Undefined >>

CredStrings == SeqsUpTo(Chars, MaxCredLen)

\* Authorization headers: absent; present without the "Basic " prefix (the
\* empty header too); "Basic " followed by text.  Node decodes base64
\* leniently: Buffer.from(text, 'base64') skips what is no base64 and never
\* throws, so the text stands for the string it decodes to.
AllHeaders ==
    { NoHeader, [kind |-> "other", decoded |-> <<>>] }
    \cup [kind : {"basic"}, decoded : CredStrings]

\* The headers the requests of a whole run are drawn from.
SomeHeaders ==
    { NoHeader, [kind |-> "other", decoded |-> <<>>],
      [kind |-> "basic", decoded |-> << "a", ":", "p" >>],
      [kind |-> "basic", decoded |-> << "p", ":", "a" >>] }

\* Buffer.from(encoded, 'base64').toString()
Base64Decode(header) == [threw |-> FALSE, text |-> header.decoded]

\* The index of the first c in s from i on, 0 when there is none.
RECURSIVE IndexOf(_, _, _)
IndexOf(s, c, i) ==
    IF i > Len(s) THEN 0
    ELSE IF s[i] = c THEN i
    ELSE IndexOf(s, c, i + 1)

\* decoded.split(':')
RECURSIVE Split(_)
Split(s) ==
    LET k == IndexOf(s, ":", 1)
    IN  IF k = 0 THEN << s >>
        ELSE << SubSeq(s, 1, k - 1) >> \o Split(SubSeq(s, k + 1, Len(s)))

\* const [user, pass] = decoded.split(':')
Destructure(decoded) ==
    LET parts == Split(decoded)
    IN  [user |-> parts[1],
         pass |-> IF Len(parts) >= 2 THEN parts[2] ELSE UndefinedString]

\* AdminEntries that never reads the file.
AdminEntriesNone(file) == <<>>

\* Read stored data: a missing file and a file that does not parse give [].
AdminEntries(file) ==
    IF file.exists /\ file.parses THEN file.entries ELSE <<>>

\* One table row: entry.timestamp || '', entry.accessToken || '', and
\* JSON.stringify(entry.accounts, null, 2).
Row(entry) ==
    [timestamp |-> Or(entry.timestamp, ""), accessToken |-> Or(entry.accessToken, ""),
     accounts |-> entry.accounts]

\* Render writing the rows last entry first.
RenderReversed(entries) ==
    [i \in 1..Len(entries) |-> Row(entries[Len(entries) + 1 - i])]

\* for (const entry of entries): the rows, in the order of the entries.
Render(entries) == [i \in 1..Len(entries) |-> Row(entries[i])]

TextBody(text) == [type |-> "text", text |-> text]
HtmlBody(rows) == [type |-> "html", rows |-> rows]
HtmlType == { <<"Content-Type", "text/html; charset=utf-8">> }
Challenge == { <<"WWW-Authenticate", "Basic realm=Admin">> }

\* The response of GET /admin to a request with this Authorization header.
AdminReply(header, file) ==
    IF header.kind # "basic"
    THEN Reply(401, Challenge, TextBody("Authentication required"))
    ELSE LET dec == Base64Decode(header)
             cred == Destructure(dec.text)
         IN  IF dec.threw THEN Reply(400, {}, TextBody("Bad Authorization header"))
             ELSE IF cred.user # ADMIN_USER \/ cred.pass # ADMIN_PASS
             THEN Reply(403, {}, TextBody("Forbidden"))
             ELSE Reply(200, HtmlType, HtmlBody(Render(AdminEntries(file))))

(***************************************************************************)
(* The request router.                                                     *)
(***************************************************************************)
Methods == {"OPTIONS", "GET", "POST", "DELETE"}
Urls == {"/admin", "/api/teller/sync", "/"}

\* The branch of the request listener a request takes.
Route(v, method, url) ==
    IF method = "OPTIONS" THEN "options"
    ELSE IF v = "updated" /\ method = "GET" /\ url = "/admin" THEN "admin"
    ELSE IF method = "POST" /\ url = "/api/teller/sync" THEN "sync"
    ELSE "notFound"

vars == <<variant, clock, dataFile, reqs, trace, file0, filt>>

Start(r) == [ev |-> "start", r |-> r]
End(r) == [ev |-> "end", r |-> r]

\* The events of a handler run that began with the request's arrival.
ArrivalEvents(r, rq) ==
    IF rq.pc = "done" THEN << Start(r), End(r) >> ELSE << Start(r) >>

\* The events of a handler run that resumed after an await.
ResumeEvents(r, rq) ==
    IF rq.pc = "done" THEN << End(r) >> ELSE <<>>

\* No call of the filter on its own.
FilterCall(transactions, numMonths) ==
    [transactions |-> transactions, numMonths |-> numMonths,
     cutoff |-> NaN, result |-> <<>>, applied |-> 0]

Init ==
    /\ variant \in Variants
    /\ clock = StartTime
    /\ dataFile \in InitialFiles
    /\ variant = "basic" => dataFile = MissingFile
    /\ reqs = [r \in Reqs |-> NewSlot]
    /\ trace = <<>>
    /\ file0 = dataFile
    /\ filt = FilterCall(<<>>, NumMonths)

\* The times new Date() may give now: time does not run backwards.
Now == clock..(StartTime + MaxTicks)

\* Arrives for a server that takes no request while a handler is suspended.
ArrivesWhenIdle(r) ==
    /\ reqs[r].pc = "new"
    /\ \A q \in Reqs : q < r => reqs[q].pc # "new"
    /\ \A q \in Reqs : reqs[q].pc \notin {"awaitAccounts", "awaitTx"}

\* Requests are numbered in the order of their arrival.
Arrives(r) ==
    /\ reqs[r].pc = "new"
    /\ \A q \in Reqs : q < r => reqs[q].pc # "new"

\* An OPTIONS request, to any path: 204 and no body.
Options(r) ==
    /\ Arrives(r)
    /\ \E u \in Urls : Route(variant, "OPTIONS", u) = "options"
    /\ LET rq == [reqs[r] EXCEPT !.pc = "done", !.route = "options",
                                 !.reply = Reply(204, {}, [type |-> "empty"])]
       IN  /\ reqs' = [reqs EXCEPT ![r] = rq]
           /\ trace' = trace \o ArrivalEvents(r, rq)
    /\ UNCHANGED <<variant, clock, dataFile, file0, filt>>

\* A request no branch of the listener takes: 404.
NotFound(r) ==
    /\ Arrives(r)
    /\ \E m \in Methods, u \in Urls : Route(variant, m, u) = "notFound"
    /\ LET rq == [reqs[r] EXCEPT !.pc = "done", !.route = "notFound",
                                 !.reply = Reply(404, { <<"Content-Type", "text/plain">> },
                                                 TextBody("Not Found"))]
       IN  /\ reqs' = [reqs EXCEPT ![r] = rq]
           /\ trace' = trace \o ArrivalEvents(r, rq)
    /\ UNCHANGED <<variant, clock, dataFile, file0, filt>>

\* GET /admin with an Authorization header of H.
Admin(r, H) ==
    /\ Arrives(r)
    /\ Route(variant, "GET", "/admin") = "admin"
    /\ \E h \in H :
         LET rq == [reqs[r] EXCEPT !.pc = "done", !.route = "admin", !.header = h,
                                   !.reply = AdminReply(h, dataFile)]
         IN  /\ reqs' = [reqs EXCEPT ![r] = rq]
             /\ trace' = trace \o ArrivalEvents(r, rq)
    /\ UNCHANGED <<variant, clock, dataFile, file0, filt>>

\* POST /api/teller/sync: this body has been received.
SyncEndWith(r, body) ==
    /\ Arrives(r)
    /\ Route(variant, "POST", "/api/teller/sync") = "sync"
    /\ LET rq == StartSync(reqs[r], body, variant)
       IN  /\ reqs' = [reqs EXCEPT ![r] = rq]
           /\ trace' = trace \o ArrivalEvents(r, rq)
    /\ UNCHANGED <<variant, clock, dataFile, file0, filt>>

SyncEnd(r) == \E body \in Bodies : SyncEndWith(r, body)

\* An awaited upstream call is rejected: the handler's catch answers 500.
CallFails(r) ==
    /\ reqs[r].pc \in {"awaitAccounts", "awaitTx"}
    /\ \E kind \in CallFailures :
         LET rq == CatchError(reqs[r], FailureMessage(kind))
         IN  /\ reqs' = [reqs EXCEPT ![r] = rq]
             /\ trace' = trace \o ResumeEvents(r, rq)
    /\ UNCHANGED <<variant, clock, dataFile, file0, filt>>

\* An awaited upstream call resolves to JSON that is no array: the for-of
\* loop, or transactions.filter, throws a TypeError.
NotAnArray(r) ==
    /\ reqs[r].pc \in {"awaitAccounts", "awaitTx"}
    /\ LET rq == CatchError(reqs[r],
                    FailureMessage(IF reqs[r].pc = "awaitAccounts" THEN "notIterable" ELSE "notArray"))
       IN  /\ reqs' = [reqs EXCEPT ![r] = rq]
           /\ trace' = trace \o ResumeEvents(r, rq)
    /\ UNCHANGED <<variant, clock, dataFile, file0, filt>>

\* The accounts call resolves to a list of accounts.
AccountsArrive(r) ==
    /\ reqs[r].pc = "awaitAccounts"
    /\ \E accounts \in AccountLists, wr \in WriteOutcomes, now \in Now :
         LET res == Resume([reqs[r] EXCEPT !.accounts = accounts], 1,
                           dataFile, now, wr, variant)
         IN  /\ reqs' = [reqs EXCEPT ![r] = res.rq]
             /\ dataFile' = res.file
             /\ clock' = now
             /\ trace' = trace \o ResumeEvents(r, res.rq)
    /\ UNCHANGED <<variant, file0, filt>>

\* A transactions call resolves to the account's list of transactions.
TransactionsArrive(r) ==
    /\ reqs[r].pc = "awaitTx"
    /\ \E wr \in WriteOutcomes, now \in Now :
         LET rq == reqs[r]
             account == rq.accounts[rq.idx]
             recent == filterRecentTransactions(UpstreamTransactions(account.id), NumMonths, now)
             pushed == [rq EXCEPT !.results = Append(@, AccountResult(account, recent))]
             res == Resume(pushed, rq.idx + 1, dataFile, now, wr, variant)
         IN  /\ reqs' = [reqs EXCEPT ![r] = res.rq]
             /\ dataFile' = res.file
             /\ clock' = now
             /\ trace' = trace \o ResumeEvents(r, res.rq)
    /\ UNCHANGED <<variant, file0, filt>>

Next ==
    \/ \E r \in Reqs : Options(r)
    \/ \E r \in Reqs : NotFound(r)
    \/ \E r \in Reqs : Admin(r, SomeHeaders)
    \/ \E r \in Reqs : SyncEnd(r)
    \/ \E r \in Reqs : CallFails(r)
    \/ \E r \in Reqs : NotAnArray(r)
    \/ \E r \in Reqs : AccountsArrive(r)
    \/ \E r \in Reqs : TransactionsArrive(r)

Spec == Init /\ [][Next]_vars

\* An upstream call in flight for request r completes, with a result or with
\* an error.
CallCompletes(r) ==
    \/ CallFails(r)
    \/ NotAnArray(r)
    \/ AccountsArrive(r)
    \/ TransactionsArrive(r)

\* The server with an upstream that lets no call hang for ever.
SpecFair == Spec /\ \A r \in Reqs : WF_vars(CallCompletes(r))

\* The admin page alone, over every Authorization header of the bound.
NextAdmin == \E r \in {1} : Admin(r, AllHeaders)

SpecAdmin == Init /\ [][NextAdmin]_vars

(***************************************************************************)
(* filterRecentTransactions on its own, over every list of transactions    *)
(* of the bound.                                                           *)
(***************************************************************************)
\* tx.date values: no date (missing, malformed), the days around the
\* cutoffs of the run's days, a day long past and a day to come.
TxDates ==
    { MissingDate, MalformedDate, MakeDay(2022, 0, 1), MakeDay(2023, 2, 1),
      MakeDay(2023, 2, 2), MakeDay(2023, 2, 3), MakeDay(2024, 0, 1) }

\* The transactions with these dates, numbered in their order.
MakeTxs(dates) == [i \in 1..Len(dates) |-> Tx(ToString(i), dates[i])]

TxLists == { MakeTxs(dates) : dates \in SeqsUpTo(TxDates, MaxTxs) }

\* The state outside the request handlers' reach.
Idle ==
    /\ variant \in Variants
    /\ dataFile = MissingFile
    /\ reqs = [r \in Reqs |-> NewSlot]
    /\ trace = <<>>
    /\ file0 = dataFile

InitFilter ==
    /\ Idle
    /\ clock \in StartTime..(StartTime + MaxTicks)
    /\ filt \in { FilterCall(txs, NumMonths) : txs \in TxLists }

\* filterRecentTransactions(transactions, numMonths), called now.
ApplyFilter ==
    /\ filt.applied = 0
    /\ filt' = [filt EXCEPT !.cutoff = Cutoff(clock, filt.numMonths),
                            !.result = filterRecentTransactions(filt.transactions, filt.numMonths, clock),
                            !.applied = 1]
    /\ UNCHANGED <<variant, clock, dataFile, reqs, trace, file0>>

\* The filter called again, at the same time, on what it returned.
ApplyAgain ==
    /\ filt.applied = 1
    /\ filt' = [filt EXCEPT !.transactions = filt.result,
                            !.result = filterRecentTransactions(filt.result, filt.numMonths, clock),
                            !.applied = 2]
    /\ UNCHANGED <<variant, clock, dataFile, reqs, trace, file0>>

NextFilter == ApplyFilter \/ ApplyAgain

SpecFilter == InitFilter /\ [][NextFilter]_vars

(***************************************************************************)
(* The cutoff on its own, over every day of NumYears years and every       *)
(* window up to MaxMonths months.                                          *)
(***************************************************************************)
Days == MakeDay(2023, 0, 1)..(MakeDay(2023 + NumYears, 0, 1) - 1)

InitCutoff ==
    /\ Idle
    /\ clock \in Days
    /\ filt \in { FilterCall(<<>>, n) : n \in 1..MaxMonths }

NextCutoff == ApplyFilter

SpecCutoff == InitCutoff /\ [][NextCutoff]_vars

(***************************************************************************)
(* Properties.                                                             *)
(***************************************************************************)
\* Request r is a sync request that has been answered.
SyncDone(r) == reqs[r].route = "sync" /\ reqs[r].pc = "done"
\* ... and answered 200.
Sync200(r) == SyncDone(r) /\ reqs[r].reply.status = 200

\* An account exposes a transactions link: its links object holds one.
ExposesLink(account) ==
    account.hasLinks /\ account.transactions.form \in {"relative", "absolute", "malformed"}

LinkedAccounts(accounts) == SelectSeq(accounts, ExposesLink)

\* C1: the body of a 200 sync response holds exactly one AccountResult per
\* upstream account that exposes a transactions link, in the order of the
\* upstream's list; the accounts without a link contribute nothing.
C1_OneResultPerLinkedAccount ==
    \A r \in Reqs :
        Sync200(r) =>
            LET items == reqs[r].reply.body.items
                linked == LinkedAccounts(reqs[r].accounts)
            IN  /\ reqs[r].reply.body.type = "array"
                /\ Len(items) = Len(linked)
                /\ \A i \in 1..Len(linked) :
                       /\ items[i].accountId = linked[i].id
                       /\ items[i].institution = linked[i].institution

\* A 200 sync whose upstream list began with an account without a link and
\* went on with one that has a link.
C1_Witness ==
    \E r \in Reqs :
        /\ Sync200(r)
        /\ Len(reqs[r].accounts) = 2
        /\ ~ExposesLink(reqs[r].accounts[1])
        /\ ExposesLink(reqs[r].accounts[2])
        /\ Len(reqs[r].reply.body.items) = 1

\* The JSON text of a SyncRecord.
RecordBody(record) ==
    [type |-> "object", accessToken |-> record.accessToken,
     timestamp |-> record.timestamp, accounts |-> record.accounts]

\* The updated server answered sync r with 200 and pushed a record for it.
Pushed(r) == variant = "updated" /\ Sync200(r) /\ reqs[r].record # NoRecord

\* C2 as claimed: the body of the 200 response is the SyncRecord
\* {accessToken, timestamp, accounts} that was pushed to the store.
C2_BodyIsSyncRecord ==
    \A r \in Reqs : Pushed(r) => reqs[r].reply.body = RecordBody(reqs[r].record)

\* C2 amended: the body of the 200 response is the array of AccountResults,
\* the accounts field of the record pushed for the request (it carries
\* neither the token nor the timestamp); and that record, with the request's
\* token, is in the file the write left, as long as the file parses.
C2_BodyIsAccountsOfRecord ==
    \A r \in Reqs :
        Pushed(r) =>
            /\ reqs[r].reply.body = ResultsBody(reqs[r].record.accounts)
            /\ reqs[r].record.accessToken = reqs[r].token
            /\ (reqs[r].storageErr = "none" /\ dataFile.parses)
                   => \E i \in 1..Len(dataFile.entries) : dataFile.entries[i] = reqs[r].record

\* A 200 sync that pushed and wrote a record with an account in it.
C2_Witness ==
    \E r \in Reqs :
        /\ Pushed(r)
        /\ reqs[r].storageErr = "none"
        /\ Len(reqs[r].record.accounts) > 0

\* Request r's handler runs from a suspension to its response in this step.
Answers(r) == reqs[r].pc # "done" /\ reqs'[r].pc = "done"

\* C3: when the accounts call or a transactions call fails (a transport
\* error, a non-2xx status, a 2xx body that is no JSON), the sync is answered
\* 500 with a body {error: message} and the file is left as it was.
C3_FetchFailureAborts ==
    [][\A r \in Reqs :
          CallFails(r) =>
              /\ reqs'[r].reply.status = 500
              /\ reqs'[r].reply.body.type = "error"
              /\ reqs'[r].reply.body.error \in { FailureMessage(k) : k \in CallFailures }
              /\ dataFile' = dataFile]_vars

\* A sync answered 500 after its accounts call and a first transactions call
\* had succeeded: its second transactions call failed.
C3_Witness ==
    \E r \in Reqs :
        /\ SyncDone(r)
        /\ reqs[r].reply.status = 500
        /\ reqs[r].reply.body.error \in { FailureMessage(k) : k \in CallFailures }
        /\ Len(reqs[r].calls) = 3

\* A body carries no non-empty access_token or accessToken.
NoToken(body) ==
    \/ body.kind # "object"
    \/ /\ body.access_token \in {Undefined, ""}
       /\ body.accessToken \in {Undefined, ""}

\* What C4 says of every such request: no upstream call, the file as it was.
NoCallNoWrite(r) ==
    /\ reqs'[r].reply.status = 500
    /\ reqs'[r].reply.body.type = "error"
    /\ reqs'[r].calls = <<>>
    /\ dataFile' = dataFile

\* C4 as claimed: a sync request whose body carries no non-empty token is
\* answered 500 with the message of the missing access token, without an
\* upstream call and without a change of the file.
C4_NoTokenMissingMessage ==
    [][\A r \in Reqs : \A body \in Bodies :
          (NoToken(body) /\ SyncEndWith(r, body)) =>
              /\ NoCallNoWrite(r)
              /\ reqs'[r].reply.body.error = "Missing access_token"]_vars

\* C4 amended: such a request is answered 500 with an error body, without an
\* upstream call and without a change of the file; the message is that of the
\* missing access token when the body is empty or a JSON object (a body that
\* is no JSON, or the JSON null, gets the parser's or the TypeError's message).
C4_NoTokenRejected ==
    [][\A r \in Reqs : \A body \in Bodies :
          (NoToken(body) /\ SyncEndWith(r, body)) =>
              /\ NoCallNoWrite(r)
              /\ body.kind = "object" => reqs'[r].reply.body.error = "Missing access_token"]_vars

\* A sync answered 500 for its missing token.
C4_Witness ==
    \E r \in Reqs :
        /\ SyncDone(r)
        /\ reqs[r].reply.status = 500
        /\ reqs[r].reply.body.error = "Missing access_token"
        /\ reqs[r].calls = <<>>

\* No two requests were in flight at the same time: each arrived after the
\* one before it was answered.
Sequential == \A i \in 2..Len(trace) : trace[i].ev = "start" => trace[i - 1].ev = "end"

\* The syncs answered 200, in the order of their responses, and the records
\* pushed for them.
SyncsAnswered200 == SelectSeq(trace, LAMBDA e : e.ev = "end" /\ Sync200(e.r))
RecordsInOrder == [i \in 1..Len(SyncsAnswered200) |-> reqs[SyncsAnswered200[i].r].record]

\* No persist step of a sync answered 200 logged an error.
AllWritesSucceeded == \A r \in Reqs : Sync200(r) => reqs[r].storageErr = "none"

\* C5: from a missing file or a file holding [], syncs handled one after
\* another whose writes all succeed leave a file holding exactly the records
\* of the syncs answered 200, in the order of the syncs.
C5_SequentialAppends ==
    (/\ variant = "updated"
     /\ file0 \in {MissingFile, ArrayFile(<<>>)}
     /\ Sequential
     /\ AllWritesSucceeded)
        => /\ dataFile.entries = RecordsInOrder
           /\ Len(RecordsInOrder) > 0 => dataFile = ArrayFile(RecordsInOrder)

\* Two syncs, one after the other, left two different records.
C5_Witness ==
    /\ variant = "updated"
    /\ file0 \in {MissingFile, ArrayFile(<<>>)}
    /\ Sequential
    /\ AllWritesSucceeded
    /\ Len(RecordsInOrder) >= 2
    /\ RecordsInOrder[1] # RecordsInOrder[2]

\* C6: when the persist step fails, the sync is answered 200 all the same,
\* with the results as its body: the error is logged and the client sees
\* nothing of it.
C6_StorageErrorSwallowed ==
    \A r \in Reqs :
        (SyncDone(r) /\ reqs[r].storageErr # "none") =>
            reqs[r].reply = Reply(200, JsonType, ResultsBody(reqs[r].results))

\* A sync with a result whose write failed.
C6_Witness ==
    \E r \in Reqs :
        /\ SyncDone(r)
        /\ reqs[r].storageErr \in {"EACCES", "ENOSPC"}
        /\ Len(reqs[r].results) > 0

\* The file is missing or does not parse.
Unreadable(file) == ~(file.exists /\ file.parses)

\* C7 as claimed: a read of a missing or unparseable file gives the empty
\* sequence and never raises, for the admin page (a report without rows) and
\* for the persist step (no SyntaxError is logged, and when no write error is
\* logged either the file holds exactly the one new record).
C7_ReadsNeverRaise ==
    [][\A r \in Reqs :
          (Answers(r) /\ Unreadable(dataFile) /\ reqs'[r].reply.status = 200) =>
              /\ reqs'[r].route = "admin" => reqs'[r].reply.body.rows = <<>>
              /\ (reqs'[r].route = "sync" /\ variant = "updated") =>
                     /\ reqs'[r].storageErr # "SyntaxError"
                     /\ reqs'[r].storageErr = "none" =>
                            /\ dataFile'.exists /\ dataFile'.parses
                            /\ Len(dataFile'.entries) = 1]_vars

\* The position of an event in the trace.
IndexOfEvent(e) == CHOOSE i \in 1..Len(trace) : trace[i] = e
Happened(e) == \E i \in 1..Len(trace) : trace[i] = e
\* Request q was answered before request a arrived.
Before(q, a) ==
    /\ Happened(End(q)) /\ Happened(Start(a))
    /\ IndexOfEvent(End(q)) < IndexOfEvent(Start(a))
\* Request q arrived while request r was in flight.
Overlap(r, q) ==
    /\ Happened(Start(r)) /\ Happened(Start(q)) /\ Happened(End(r))
    /\ IndexOfEvent(Start(r)) < IndexOfEvent(Start(q))
    /\ IndexOfEvent(Start(q)) < IndexOfEvent(End(r))

\* GET /admin request a was answered 200.
AdminOK(a) == reqs[a].route = "admin" /\ reqs[a].reply.status = 200
\* A row of the report of a shows the record.
Shows(a, record) ==
    \E i \in 1..Len(reqs[a].reply.body.rows) : reqs[a].reply.body.rows[i] = Row(record)

\* C8 as claimed: an authenticated GET /admin shows the record of every sync
\* answered 200 before it in the same run, whether its write failed or not.
C8_AdminShowsEveryRecord ==
    \A a \in Reqs, q \in Reqs :
        (AdminOK(a) /\ Pushed(q) /\ Before(q, a)) => Shows(a, reqs[q].record)

\* C8 amended: the server keeps no list of the run's records; the report of
\* an authenticated GET /admin holds one row per entry of the file as it is
\* at that moment, in the file's order, and nothing else, so a record whose
\* write failed is shown only if an equal entry is in the file.
C8_AdminShowsFileOnly ==
    [][\A a \in Reqs :
          (Answers(a) /\ reqs'[a].route = "admin" /\ reqs'[a].reply.status = 200) =>
              LET entries == IF Unreadable(dataFile) THEN <<>> ELSE dataFile.entries
              IN  /\ Len(reqs'[a].reply.body.rows) = Len(entries)
                  /\ \A i \in 1..Len(entries) :
                         /\ reqs'[a].reply.body.rows[i].timestamp = entries[i].timestamp
                         /\ reqs'[a].reply.body.rows[i].accessToken = entries[i].accessToken
                         /\ reqs'[a].reply.body.rows[i].accounts = entries[i].accounts]_vars

\* A sync was answered 200, its write failed, and the report of a later
\* authenticated GET /admin does not show its record.
C8_Witness ==
    \E a \in Reqs, q \in Reqs :
        /\ AdminOK(a) /\ Pushed(q) /\ Before(q, a)
        /\ reqs[q].storageErr \in {"EACCES", "ENOSPC"}
        /\ ~Shows(a, reqs[q].record)

\* The file the run started with is missing or holds a JSON array.
WellFormedStart == file0 = MissingFile \/ file0.parses

\* C9 as claimed: of two syncs in flight at the same time in the one process,
\* both answered 200 with every write succeeding, one drops the record the
\* other wrote: the file holds fewer new records than there were syncs.
C9_ConcurrentSyncsDropRecord ==
    \A r \in Reqs, q \in Reqs :
        (/\ variant = "updated" /\ WellFormedStart
         /\ r # q /\ Overlap(r, q)
         /\ Sync200(r) /\ Sync200(q)
         /\ AllWritesSucceeded)
            => Len(dataFile.entries) < Len(file0.entries) + Len(SyncsAnswered200)

\* C9 amended: no record is lost in the one process, whether the syncs are
\* in flight at the same time or not.  The persist step reads and writes the
\* file with synchronous calls and no await between them, so it runs
\* unbroken: when every write succeeds, the file holds what it held at the
\* start followed by the record of every sync answered 200, in the order of
\* the responses.
C9_NoRecordLost ==
    (variant = "updated" /\ WellFormedStart /\ AllWritesSucceeded)
        => dataFile.entries = file0.entries \o RecordsInOrder

\* Two syncs were in flight at the same time, both were answered 200 and
\* both writes succeeded.
C9_Witness ==
    \E r \in Reqs, q \in Reqs :
        /\ variant = "updated" /\ WellFormedStart
        /\ r # q /\ Overlap(r, q)
        /\ Sync200(r) /\ Sync200(q)
        /\ AllWritesSucceeded
        /\ reqs[r].record # reqs[q].record

\* The header carries Basic credentials equal to the configured ones: the
\* user-id is what precedes the first colon, the password all that follows it.
CarriesAdminCredentials(header) ==
    header.kind = "basic" /\ header.decoded = ADMIN_USER \o << ":" >> \o ADMIN_PASS

\* The header carries Basic credentials, a user-id and a password, that are
\* not the configured ones.
CarriesWrongCredentials(header) ==
    /\ header.kind = "basic"
    /\ IndexOf(header.decoded, ":", 1) # 0
    /\ header.decoded # ADMIN_USER \o << ":" >> \o ADMIN_PASS

AdminDone(r) == reqs[r].route = "admin" /\ reqs[r].pc = "done"

\* C10 as claimed: GET /admin answers 200 with the report only to Basic
\* credentials equal to the configured user and password; without an
\* Authorization header it answers 401 with a Basic challenge, to wrong
\* credentials 403, and neither of these two responses holds a stored record.
C10_AdminOnlyForAdminCredentials ==
    \A r \in Reqs :
        AdminDone(r) =>
            /\ reqs[r].reply.status = 200 => CarriesAdminCredentials(reqs[r].header)
            /\ reqs[r].header.kind = "absent" =>
                   /\ reqs[r].reply.status = 401
                   /\ Challenge \subseteq reqs[r].reply.headers
            /\ CarriesWrongCredentials(reqs[r].header) => reqs[r].reply.status = 403
            /\ reqs[r].reply.status \in {401, 403} => reqs[r].reply.body.type = "text"

\* The header is present and is no Basic user:password credential: it lacks
\* the "Basic " prefix, or what follows the prefix decodes to text without
\* a colon (the empty text too).
MalformedHeader(header) ==
    \/ header.kind = "other"
    \/ header.kind = "basic" /\ IndexOf(header.decoded, ":", 1) = 0

\* C11 as claimed: GET /admin with an Authorization header that is present
\* but malformed is answered 400, not the 401 of absent credentials nor the
\* 403 of wrong ones.
C11_MalformedHeader400 ==
    \A r \in Reqs :
        (AdminDone(r) /\ MalformedHeader(reqs[r].header)) => reqs[r].reply.status = 400

\* A transaction's date field holds a date, and one on or after the cutoff.
Retained(tx, cutoff) ==
    /\ tx.date \notin {MissingDate, MalformedDate}
    /\ tx.date >= cutoff

\* The positions of the transactions to retain, and the k-th of them.
RetainedAt(txs, cutoff) == { i \in 1..Len(txs) : Retained(txs[i], cutoff) }
Nth(S, k) == CHOOSE i \in S : Cardinality({ j \in S : j <= i }) = k

\* C12: the filter keeps a transaction if and only if its date field holds a
\* date on or after the cutoff (the cutoff itself and every later day are
\* kept); a transaction whose date is missing or malformed is dropped, the
\* others are kept as if it were not there, and what is kept stays in the
\* order of the input.
C12_KeptIffDateFromCutoff ==
    filt.applied >= 1 =>
        LET pos == RetainedAt(filt.transactions, filt.cutoff)
        IN  /\ Len(filt.result) = Cardinality(pos)
            /\ \A k \in 1..Len(filt.result) :
                   filt.result[k] = filt.transactions[Nth(pos, k)]

\* The filter was given a transaction dated on the cutoff, one with a
\* malformed date and one dated after the cutoff, and kept the first and the
\* last.
C12_Witness ==
    /\ filt.applied = 1
    /\ Len(filt.transactions) = 3
    /\ filt.transactions[1].date = filt.cutoff
    /\ filt.transactions[2].date = MalformedDate
    /\ filt.transactions[3].date > filt.cutoff
    /\ filt.result = << filt.transactions[1], filt.transactions[3] >>

\* Request r has been answered.
Answered(r) == reqs[r].pc = "done"

\* The response carries the header with this value, and with no other.
HasHeader(reply, name, value) ==
    \A h \in { g \in reply.headers : g[1] = name } \cup { <<name, value>> } :
        h \in reply.headers /\ h[2] = value

\* An OPTIONS request is answered 204 without a body.
OptionsIs204(r) ==
    reqs[r].route = "options" =>
        reqs[r].reply.status = 204 /\ reqs[r].reply.body.type = "empty"

\* C13 as claimed: every response carries Access-Control-Allow-Origin: *,
\* the allowed methods POST, OPTIONS, GET and the allowed headers
\* Content-Type, Authorization; an OPTIONS request is answered 204 with
\* these headers and no body.
C13_CorsAllowsGetAndAuthorization ==
    \A r \in Reqs :
        Answered(r) =>
            /\ HasHeader(reqs[r].reply, "Access-Control-Allow-Origin", "*")
            /\ HasHeader(reqs[r].reply, "Access-Control-Allow-Methods", "POST, OPTIONS, GET")
            /\ HasHeader(reqs[r].reply, "Access-Control-Allow-Headers", "Content-Type, Authorization")
            /\ OptionsIs204(r)

\* C13 amended: every response, on every route and with every status,
\* carries Access-Control-Allow-Origin: *, the allowed methods POST, OPTIONS
\* and the allowed header Content-Type (neither GET nor Authorization is
\* listed); an OPTIONS request is answered 204 with these headers and no
\* body.
C13_CorsOnEveryResponse ==
    \A r \in Reqs :
        Answered(r) =>
            /\ HasHeader(reqs[r].reply, "Access-Control-Allow-Origin", "*")
            /\ HasHeader(reqs[r].reply, "Access-Control-Allow-Methods", "POST, OPTIONS")
            /\ HasHeader(reqs[r].reply, "Access-Control-Allow-Headers", "Content-Type")
            /\ OptionsIs204(r)

\* An OPTIONS request was answered 204 and a sync request 500, both with the
\* three headers.
C13_Witness ==
    \E r \in Reqs, q \in Reqs :
        /\ Answered(r) /\ reqs[r].route = "options" /\ reqs[r].reply.status = 204
        /\ Answered(q) /\ reqs[q].route = "sync" /\ reqs[q].reply.status = 500
        /\ \A x \in {r, q} :
               /\ <<"Access-Control-Allow-Origin", "*">> \in reqs[x].reply.headers
               /\ <<"Access-Control-Allow-Methods", "POST, OPTIONS">> \in reqs[x].reply.headers
               /\ <<"Access-Control-Allow-Headers", "Content-Type">> \in reqs[x].reply.headers

\* The records in the store: the entries of the file, none when the file is
\* missing or does not parse.
StoredRecords(file) == IF Unreadable(file) THEN <<>> ELSE file.entries

\* C14: GET /admin with the configured credentials answers 200 with an HTML
\* table of exactly one row per record in the store, in stored order, each
\* row showing the timestamp stored in its record.
C14_OneRowPerStoredRecord ==
    [][\A a \in Reqs :
          (/\ Answers(a)
           /\ reqs'[a].route = "admin"
           /\ CarriesAdminCredentials(reqs'[a].header)) =>
              LET reply == reqs'[a].reply
                  stored == StoredRecords(dataFile)
              IN  /\ reply.status = 200
                  /\ <<"Content-Type", "text/html; charset=utf-8">> \in reply.headers
                  /\ reply.body.type = "html"
                  /\ Len(reply.body.rows) = Len(stored)
                  /\ \A i \in 1..Len(stored) :
                         reply.body.rows[i].timestamp = stored[i].timestamp]_vars

\* GET /admin with the configured credentials was answered with two rows of
\* different timestamps: the record of an earlier run, then the record of a
\* sync of this run.
C14_Witness ==
    \E a \in Reqs, q \in Reqs :
        /\ AdminOK(a) /\ CarriesAdminCredentials(reqs[a].header)
        /\ Pushed(q) /\ Before(q, a)
        /\ Len(reqs[a].reply.body.rows) = 2
        /\ reqs[a].reply.body.rows[1].timestamp = OldRecord.timestamp
        /\ reqs[a].reply.body.rows[2].timestamp = reqs[q].record.timestamp
        /\ OldRecord.timestamp # reqs[q].record.timestamp

\* C15: the filter is idempotent: called again, with the same cutoff, on
\* what it returned, it returns the same transactions in the same order.
C15_FilterIdempotent ==
    filt.applied = 2 =>
        /\ Len(filt.result) = Len(filt.transactions)
        /\ \A i \in 1..Len(filt.transactions) : filt.result[i] = filt.transactions[i]
        /\ filt.cutoff = Cutoff(clock, filt.numMonths)

\* The filter was called again on two transactions it had kept, one of them
\* dated on the cutoff, and kept both.
C15_Witness ==
    /\ filt.applied = 2
    /\ Len(filt.transactions) = 2
    /\ filt.transactions[1].date > filt.cutoff
    /\ filt.transactions[2].date = filt.cutoff
    /\ filt.transactions[1].id # "1"
    /\ Len(filt.result) = 2

\* The handler of request r is suspended in an await: its last call is in flight.
Awaiting(rq) == rq.pc \in {"awaitAccounts", "awaitTx"}

\* The upstream calls of a sync that is under way or was answered 200: the
\* accounts call, then one transactions call per linked account, in the
\* order of the accounts list, up to the account the loop has reached.
CallsInOrder(rq) ==
    LET reached == IF rq.pc = "awaitTx" THEN SubSeq(rq.accounts, 1, rq.idx) ELSE rq.accounts
        linked == LinkedAccounts(reached)
    IN  (rq.route = "sync" /\ (Awaiting(rq) \/ rq.reply.status = 200)) =>
            /\ Len(rq.calls) = 1 + Len(linked)
            /\ rq.calls[1].path = "/accounts"
            /\ \A k \in 1..Len(linked) :
                   /\ rq.calls[k + 1].path = linked[k].transactions.path
                   /\ rq.calls[k + 1].auth = rq.calls[1].auth

\* C16: the upstream calls of one sync are strictly sequential.  A call is
\* issued only when the request arrives (the accounts call) or in the step in
\* which the call in flight completes with a result, and one at a time; the
\* transactions calls follow the accounts call in the order of the accounts
\* list; a step in which a call fails issues none, and an answered request
\* issues none ever after.
C16_UpstreamCallsSequential ==
    [][\A r \in Reqs :
          LET old == reqs[r].calls
              new == reqs'[r].calls
          IN  /\ new # old =>
                     /\ Len(new) = Len(old) + 1
                     /\ SubSeq(new, 1, Len(old)) = old
                     /\ old = <<>> => reqs[r].pc = "new"
                     /\ old # <<>> => Awaiting(reqs[r])
                     /\ Awaiting(reqs'[r])
              /\ (Awaiting(reqs[r]) /\ reqs'[r].reply.status = 500) => new = old
              /\ reqs[r].pc = "done" => reqs'[r] = reqs[r]
              /\ CallsInOrder(reqs'[r])]_vars

\* A sync answered 200 issued three calls: the accounts call, then the
\* transactions calls of two different accounts in the order of the list.
C16_Witness ==
    \E r \in Reqs :
        /\ Sync200(r)
        /\ Len(reqs[r].calls) = 3
        /\ reqs[r].accounts[1] # reqs[r].accounts[2]
        /\ reqs[r].calls[1].path = "/accounts"
        /\ reqs[r].calls[2].path = reqs[r].accounts[1].transactions.path
        /\ reqs[r].calls[3].path = reqs[r].accounts[2].transactions.path

\* The number of responses request r has been sent.
Responses(r, events) == Len(SelectSeq(events, LAMBDA e : e = End(r)))

\* C17: a sync request whose body has been received is answered exactly
\* once, with 200 or with 500, if every upstream call it issues completes
\* with a result or an error; and no upstream call is retried: a call issued
\* in the step that completes another is the call of a later account.
C17_AnsweredExactlyOnce ==
    /\ [][\A r \in Reqs :
             /\ Responses(r, trace') = IF reqs'[r].pc = "done" THEN 1 ELSE 0
             /\ (reqs'[r].route = "sync" /\ reqs'[r].pc = "done") =>
                    reqs'[r].reply.status \in {200, 500}
             /\ (Awaiting(reqs[r]) /\ reqs'[r] # reqs[r]) =>
                    \/ reqs'[r].pc = "done" /\ reqs'[r].calls = reqs[r].calls
                    \/ /\ reqs'[r].pc = "awaitTx"
                       /\ reqs'[r].idx > reqs[r].idx
                       /\ Len(reqs'[r].calls) = Len(reqs[r].calls) + 1]_vars
    /\ \A r \in Reqs :
           (reqs[r].route = "sync") ~>
               (reqs[r].pc = "done" /\ reqs[r].reply.status \in {200, 500})

\* A sync was answered 200 after three upstream calls while another sync,
\* whose accounts call had failed, was answered 500: each has one response.
C17_Witness ==
    \E r \in Reqs, q \in Reqs :
        /\ Sync200(r) /\ Len(reqs[r].calls) = 3
        /\ SyncDone(q) /\ reqs[q].reply.status = 500 /\ Len(reqs[q].calls) = 1
        /\ Responses(r, trace) = 1 /\ Responses(q, trace) = 1

\* Request q is the next a client may send.
NextToArrive(q) ==
    /\ reqs[q].pc = "new"
    /\ \A p \in Reqs : p < q => reqs[p].pc # "new"

\* C18: while a sync request waits on an upstream call (for ever, if the
\* call never returns), the server accepts the next request whatever it is:
\* an OPTIONS request, a GET /admin, another sync, a request of no route;
\* and a step that answers another request leaves the waiting one as it was.
C18_WaitingSyncBlocksNothing ==
    /\ [](\A r \in Reqs, q \in Reqs :
              (Awaiting(reqs[r]) /\ NextToArrive(q)) =>
                  /\ ENABLED Options(q)
                  /\ ENABLED NotFound(q)
                  /\ ENABLED SyncEnd(q)
                  /\ variant = "updated" => ENABLED Admin(q, SomeHeaders))
    /\ [][\A r \in Reqs, q \in Reqs :
             (r # q /\ Awaiting(reqs[r]) /\ Answers(q)) => reqs'[r] = reqs[r]]_vars

\* A sync request is still waiting on its accounts call while a sync request
\* that arrived after it has been answered 200.
C18_Witness ==
    \E r \in Reqs, q \in Reqs :
        /\ r < q
        /\ reqs[r].pc = "awaitAccounts"
        /\ Sync200(q)
        /\ Happened(Start(r)) /\ Happened(End(q)) /\ ~Happened(End(r))

\* C19 as claimed: the store is append-only.  From a missing or well-formed
\* file, the file stays missing or a JSON array after every step of the
\* server, and a step that changes the file is the step of a sync answered
\* 200 that leaves the records stored before as they were and adds its one
\* record after them; GET /admin, OPTIONS and failed syncs leave the file
\* as it is.
C19_StoreAppendOnly ==
    [][(variant = "updated" /\ WellFormedStart) =>
          /\ dataFile' = MissingFile \/ dataFile'.parses
          /\ dataFile' # dataFile =>
                 \E r \in Reqs :
                     /\ Answers(r)
                     /\ reqs'[r].route = "sync"
                     /\ reqs'[r].reply.status = 200
                     /\ dataFile' = ArrayFile(Append(StoredRecords(dataFile), reqs'[r].record))]_vars

\* The smaller of two numbers.
Min(a, b) == IF a <= b THEN a ELSE b

\* The calendar month that is n months before the month of time value t:
\* its year and its month 0..11.
MonthsBefore(t, n) ==
    LET index == 12 * getFullYear(t) + getMonth(t) - n
    IN  [year |-> index \div 12, month |-> index % 12]

\* C20 as claimed: the cutoff is the current date moved back by the window's
\* number of calendar months: it falls in the calendar month that many
\* months before the current one, the year following when the month runs
\* below January, on the current day of the month or, when that month has
\* no such day, on its last day.
C20_CutoffInMonthBefore ==
    filt.applied = 1 =>
        LET target == MonthsBefore(clock, filt.numMonths)
            cutoff == DateFromTime(filt.cutoff)
        IN  /\ cutoff.year = target.year
            /\ cutoff.month = target.month
            /\ cutoff.date = Min(getDate(clock), DaysInMonth(target.year, target.month))

====
